---- MODULE Spec2Model ----
(***************************************************************************)
(* Model of vroom::utils::SolutionIndicators                               *)
(* (src/structures/vroom/solution_indicators.h): the aggregating           *)
(* constructor, the default constructor and the comparison operator<.      *)
(*                                                                         *)
(* Three specifications share the variables below:                         *)
(*   Spec     two operands are built and compared with operator<;          *)
(*   SpecAgg  a solution (one route per vehicle slot) is aggregated;       *)
(*   SpecRed  a best-candidate reduction driven by operator<.              *)
(***************************************************************************)
EXTENDS Integers, Sequences, FiniteSets, TLC

(***************************************************************************)
(* Bounds of the comparator's value domain.                                *)
(***************************************************************************)
MaxPriority == 1
MaxAssigned == 2
MaxCostUnits == 1
MaxTieBreak == 1

(***************************************************************************)
(* Bounds of the aggregated instances and of the reduction.                *)
(***************************************************************************)
MaxJobs == 2
MaxSlots == 3
MaxJobPriority == 1
NumWorkers == 3

(***************************************************************************)
(* Scaling factors named at solution_indicators.h:69-71.                   *)
(***************************************************************************)
DURATION_FACTOR == 100
COST_FACTOR == 3600
PRIORITY_SCALE == DURATION_FACTOR * COST_FACTOR

VARIABLES
  lhs, rhs,      \* the two operands of operator<
  how,           \* "given": operands are arbitrary values; "default": both
                 \* operands were produced by SolutionIndicators()
  cmp,           \* [lt |-> lhs < rhs, gt |-> rhs < lhs] once compared
  cpc,           \* "start" | "operands" | "compared"
  input,         \* the problem instance seen by the cost model
  sol,           \* std::vector<Route>, one route per vehicle slot
  perm,          \* a permutation of the vehicle slots
  ind,           \* SolutionIndicators(input, sol) once built
  indp,          \* SolutionIndicators(input, sol permuted by perm) once built
  eval_calls,    \* vehicle ranks passed to route_eval_for_vehicle, in order
  prio_calls,    \* number of calls of priority_sum_for_route
  apc,           \* "input" | "built" | "both"
  candidates,    \* the fixed set of candidates of a reduction
  pendingA, incumbentA,   \* reduction run A: not yet arrived / incumbent
  pendingB, incumbentB    \* reduction run B, same candidates, own order

cmpVars == <<lhs, rhs, how, cmp, cpc>>
aggVars == <<input, sol, perm, ind, indp, eval_calls, prio_calls, apc>>
redVars == <<candidates, pendingA, incumbentA, pendingB, incumbentB>>
vars == <<lhs, rhs, how, cmp, cpc, input, sol, perm, ind, indp, eval_calls,
          prio_calls, apc, candidates, pendingA, incumbentA, pendingB,
          incumbentB>>

(***************************************************************************)
(* Value domain of SolutionIndicators.                                     *)
(***************************************************************************)
CostValues == {k * PRIORITY_SCALE : k \in 0..MaxCostUnits}

Evals == [cost : CostValues, duration : 0..MaxTieBreak,
          distance : 0..MaxTieBreak]

ZeroEval == [cost |-> 0, duration |-> 0, distance |-> 0]

\* What the aggregating constructor can produce: a vehicle is used only if
\* it carries a job, and priority is only collected from assigned jobs.
Constructible(i) ==
  /\ i.used_vehicles <= i.assigned
  /\ (i.assigned = 0) <=> (i.used_vehicles = 0)
  /\ (i.priority_sum > 0) => (i.assigned > 0)

\* The four last criteria are bounded together: the vehicles used beyond
\* the first, the duration, the distance and the hash sum to at most
\* MaxTieBreak.
TieBreakWeight(i) ==
  (IF i.used_vehicles > 1 THEN i.used_vehicles - 1 ELSE 0)
    + i.eval.duration + i.eval.distance + i.routes_hash

IndicatorRecords ==
  [priority_sum : 0..MaxPriority, assigned : 0..MaxAssigned, eval : Evals,
   used_vehicles : 0..MaxAssigned, routes_hash : 0..MaxTieBreak]

\* The value domain, enumerated once.
Indicators ==
  {i : i \in {r \in IndicatorRecords :
                Constructible(r) /\ TieBreakWeight(r) <= MaxTieBreak}}

\* SolutionIndicators() = default: priority_sum, assigned, used_vehicles and
\* eval have zero initialisers; routes_hash has none, so a
\* default-initialised object holds an indeterminate value h there.
DefaultConstructed(h) ==
  [priority_sum |-> 0, assigned |-> 0, eval |-> ZeroEval,
   used_vehicles |-> 0, routes_hash |-> h]

(***************************************************************************)
(* operator<                                                               *)
(***************************************************************************)
\* A comparison that accepts as soon as any position is smaller.
TupleLessAnyPosition(s, t) == \E k \in 1..Len(s) : s[k] < t[k]

\* std::tuple's operator<: lexicographic on equally long tuples.
RECURSIVE TupleLess(_, _)
TupleLess(s, t) ==
  IF s = <<>> THEN FALSE
  ELSE IF Head(s) < Head(t) THEN TRUE
  ELSE IF Head(t) < Head(s) THEN FALSE
  ELSE TupleLess(Tail(s), Tail(t))

\* lhs_profit / rhs_profit, in int64_t.  priority_sum is a 32-bit unsigned
\* value, so priority_sum * PRIORITY_SCALE is below 2^51 and the subtraction
\* cannot wrap for the costs of the domain.
Profit(i) == i.priority_sum * PRIORITY_SCALE - i.eval.cost

UsingPriorities(l, r) == (l.priority_sum > 0) \/ (r.priority_sum > 0)

\* The profit tie-break without its last element.
ProfitTieBreakNoHash(l, r) ==
  TupleLess(<<r.assigned, l.used_vehicles, l.eval.duration,
              l.eval.distance>>,
            <<l.assigned, r.used_vehicles, r.eval.duration,
              r.eval.distance>>)

\* Tie-breakers of the profit branch.
ProfitTieBreak(l, r) ==
  TupleLess(<<r.assigned, l.used_vehicles, l.eval.duration,
              l.eval.distance, l.routes_hash>>,
            <<l.assigned, r.used_vehicles, r.eval.duration,
              r.eval.distance, r.routes_hash>>)

\* The lexicographic branch with cost placed before the job count.
LexicographicCostFirst(l, r) ==
  TupleLess(<<l.eval.cost, r.assigned, l.used_vehicles,
              l.eval.duration, l.eval.distance, l.routes_hash>>,
            <<r.eval.cost, l.assigned, r.used_vehicles,
              r.eval.duration, r.eval.distance, r.routes_hash>>)

\* Default lexicographic branch.
Lexicographic(l, r) ==
  TupleLess(<<r.assigned, l.eval.cost, l.used_vehicles,
              l.eval.duration, l.eval.distance, l.routes_hash>>,
            <<l.assigned, r.eval.cost, r.used_vehicles,
              r.eval.duration, r.eval.distance, r.routes_hash>>)

\* operator< whose profit branch returns lhs_profit >= rhs_profit at once.
OperatorLessProfitGeq(l, r) ==
  IF UsingPriorities(l, r)
  THEN Profit(l) >= Profit(r)
  ELSE Lexicographic(l, r)

OperatorLess(l, r) ==
  IF UsingPriorities(l, r)
  THEN LET lhs_profit == Profit(l)
           rhs_profit == Profit(r)
       IN IF lhs_profit # rhs_profit
          THEN lhs_profit > rhs_profit
          ELSE ProfitTieBreak(l, r)
  ELSE Lexicographic(l, r)

(***************************************************************************)
(* Spec: build two operands, compare them.                                 *)
(***************************************************************************)
NoCmp == [lt |-> FALSE, gt |-> FALSE]

AggIdle ==
  /\ input = [priority |-> <<>>]
  /\ sol = <<>>
  /\ perm = <<>>
  /\ ind = <<>>
  /\ indp = <<>>
  /\ eval_calls = <<>>
  /\ prio_calls = 0
  /\ apc = "input"

RedIdle ==
  /\ candidates = {}
  /\ pendingA = {}
  /\ incumbentA = <<>>
  /\ pendingB = {}
  /\ incumbentB = <<>>

\* No operand has been built yet.
Init ==
  /\ lhs = DefaultConstructed(0)
  /\ rhs = DefaultConstructed(0)
  /\ how = "given"
  /\ cmp = NoCmp
  /\ cpc = "start"
  /\ AggIdle
  /\ RedIdle

\* Two objects are default-initialised: SolutionIndicators a; SolutionIndicators b;
DefaultConstruct ==
  /\ cpc = "start"
  /\ \E h1 \in 0..MaxTieBreak, h2 \in 0..MaxTieBreak :
       /\ lhs' = DefaultConstructed(h1)
       /\ rhs' = DefaultConstructed(h2)
  /\ how' = "default"
  /\ cmp' = NoCmp
  /\ cpc' = "operands"
  /\ UNCHANGED <<aggVars, redVars>>

\* The indicators of two candidate solutions are handed to the comparator.
TakeOperands ==
  /\ cpc = "start"
  /\ lhs' \in Indicators
  /\ rhs' \in Indicators
  /\ how' = "given"
  /\ cmp' = NoCmp
  /\ cpc' = "operands"
  /\ UNCHANGED <<aggVars, redVars>>

\* lhs < rhs and rhs < lhs are evaluated.
Compare ==
  /\ cpc = "operands"
  /\ cmp' = [lt |-> OperatorLess(lhs, rhs), gt |-> OperatorLess(rhs, lhs)]
  /\ cpc' = "compared"
  /\ UNCHANGED <<lhs, rhs, how, aggVars, redVars>>

Next == DefaultConstruct \/ TakeOperands \/ Compare

Spec == Init /\ [][Next]_vars

(***************************************************************************)
(* The aggregating constructor SolutionIndicators(input, sol).             *)
(***************************************************************************)
Jobs == 1..MaxJobs

\* Sequences of distinct jobs.
RouteSeqs ==
  UNION {{q \in [1..n -> Jobs] : \A x, y \in 1..n : x # y => q[x] # q[y]} :
         n \in 0..MaxJobs}

\* The route type: the constructor reads r.route, r.empty() and std::size(r).
Routes == [route : RouteSeqs]

RouteSize(r) == Len(r.route)

RouteEmpty(r) == r.route = <<>>

\* One route per vehicle slot, no job in two routes.
Solutions ==
  UNION {{v \in [1..n -> Routes] :
            \A x, y \in 1..n : x # y =>
              \A k \in 1..Len(v[x].route), m \in 1..Len(v[y].route) :
                v[x].route[k] # v[y].route[m]} :
         n \in 0..MaxSlots}

Inputs == [priority : [Jobs -> 0..MaxJobPriority]]

\* Cost model: sum of the priorities of the jobs of a route.
RECURSIVE priority_sum_for_route(_, _)
priority_sum_for_route(in, route) ==
  IF route = <<>> THEN 0
  ELSE in.priority[Head(route)] + priority_sum_for_route(in, Tail(route))

RECURSIVE JobsSum(_)
JobsSum(route) ==
  IF route = <<>> THEN 0 ELSE Head(route) + JobsSum(Tail(route))

\* Cost model: evaluation of a route on the vehicle of rank v_rank (ranks
\* start at 0).  A stand-in whose value depends on the rank and on the route:
\* a fixed cost that grows with the rank, a duration per job that grows
\* with the rank, a distance that depends on the jobs visited.
route_eval_for_vehicle(in, v_rank, route) ==
  IF route = <<>> THEN ZeroEval
  ELSE [cost |-> (v_rank + 1) * MaxJobs + Len(route),
        duration |-> Len(route) * (v_rank + 1),
        distance |-> JobsSum(route)]

\* Eval::operator+=
EvalAdd(e, f) ==
  [cost |-> e.cost + f.cost, duration |-> e.duration + f.duration,
   distance |-> e.distance + f.distance]

\* State of the constructor before the loop: the delegated default
\* constructor, v_rank = 0, and the record of cost-model calls.
LoopStart ==
  [priority_sum |-> 0, assigned |-> 0, eval |-> ZeroEval,
   used_vehicles |-> 0, v_rank |-> 0, eval_calls |-> <<>>,
   prio_calls |-> 0]

\* One iteration that counts the vehicle whether or not its route is empty.
LoopBodyCountsEveryVehicle(in, r, acc) ==
  [priority_sum |-> acc.priority_sum + priority_sum_for_route(in, r.route),
   assigned |-> acc.assigned + Len(r.route),
   eval |-> EvalAdd(acc.eval,
                    route_eval_for_vehicle(in, acc.v_rank, r.route)),
   v_rank |-> acc.v_rank + 1,
   used_vehicles |-> acc.used_vehicles + 1,
   eval_calls |-> Append(acc.eval_calls, acc.v_rank),
   prio_calls |-> acc.prio_calls + 1]

\* One iteration of "for (const auto& r : sol)".  assigned and
\* used_vehicles are unsigned; the sums of the domain stay far below 2^32.
LoopBody(in, r, acc) ==
  [priority_sum |-> acc.priority_sum + priority_sum_for_route(in, r.route),
   assigned |-> acc.assigned + Len(r.route),
   eval |-> EvalAdd(acc.eval,
                    route_eval_for_vehicle(in, acc.v_rank, r.route)),
   v_rank |-> acc.v_rank + 1,
   used_vehicles |-> IF ~RouteEmpty(r) THEN acc.used_vehicles + 1
                     ELSE acc.used_vehicles,
   eval_calls |-> Append(acc.eval_calls, acc.v_rank),
   prio_calls |-> acc.prio_calls + 1]

RECURSIVE Loop(_, _, _)
Loop(in, s, acc) ==
  IF s = <<>> THEN acc
  ELSE Loop(in, Tail(s), LoopBody(in, Head(s), acc))

\* std::ranges::transform(sol, back_inserter(routes_sizes), std::size)
RoutesSizes(s) == [k \in 1..Len(s) |-> RouteSize(s[k])]

RECURSIVE InsertSorted(_, _)
InsertSorted(x, q) ==
  IF q = <<>> THEN <<x>>
  ELSE IF x <= Head(q) THEN <<x>> \o q
  ELSE <<Head(q)>> \o InsertSorted(x, Tail(q))

\* The sizes left in vehicle-slot order.
Unsorted(q) == q

\* std::ranges::sort(routes_sizes): ascending.
RECURSIVE Sort(_)
Sort(q) == IF q = <<>> THEN <<>> ELSE InsertSorted(Head(q), Sort(Tail(q)))

\* get_vector_hash: a deterministic, order-sensitive multiply-and-add fold
\* from a fixed seed, reduced to HASH_MOD values.
HASH_SEED == 7
HASH_MULT == 31
HASH_MOD == 65536

RECURSIVE HashFold(_, _)
HashFold(h, vec) ==
  IF vec = <<>> THEN h
  ELSE HashFold((h * HASH_MULT + Head(vec) + 1) % HASH_MOD, Tail(vec))

get_vector_hash(vec) == HashFold(HASH_SEED, vec)

\* routes_hash as the constructor's last three statements compute it.
RoutesHash(s) == get_vector_hash(Sort(RoutesSizes(s)))

\* The whole constructor: the indicators and the record of calls.
Construct(in, s) ==
  LET acc == Loop(in, s, LoopStart) IN
  [indicators |->
     [priority_sum |-> acc.priority_sum, assigned |-> acc.assigned,
      eval |-> acc.eval, used_vehicles |-> acc.used_vehicles,
      routes_hash |-> RoutesHash(s)],
   eval_calls |-> acc.eval_calls,
   prio_calls |-> acc.prio_calls]

SlotPermutations(n) ==
  {q \in [1..n -> 1..n] : \A x, y \in 1..n : x # y => q[x] # q[y]}

Permuted(s, q) == [k \in 1..Len(s) |-> s[q[k]]]

CmpIdle ==
  /\ lhs = DefaultConstructed(0)
  /\ rhs = DefaultConstructed(0)
  /\ how = "given"
  /\ cmp = NoCmp
  /\ cpc = "start"

InitAgg ==
  /\ input \in Inputs
  /\ sol \in Solutions
  /\ perm = <<>>
  /\ ind = <<>>
  /\ indp = <<>>
  /\ eval_calls = <<>>
  /\ prio_calls = 0
  /\ apc = "input"
  /\ CmpIdle
  /\ RedIdle

\* SolutionIndicators(input, sol)
Aggregate ==
  /\ apc = "input"
  /\ LET c == Construct(input, sol) IN
       /\ ind' = c.indicators
       /\ eval_calls' = c.eval_calls
       /\ prio_calls' = c.prio_calls
  /\ apc' = "built"
  /\ UNCHANGED <<input, sol, perm, indp, cmpVars, redVars>>

\* The same routes are given to the constructor in another slot order.
AggregatePermuted ==
  /\ apc = "built"
  /\ \E q \in SlotPermutations(Len(sol)) :
       /\ perm' = q
       /\ indp' = Construct(input, Permuted(sol, q)).indicators
  /\ apc' = "both"
  /\ UNCHANGED <<input, sol, ind, eval_calls, prio_calls, cmpVars, redVars>>

NextAgg == Aggregate \/ AggregatePermuted

SpecAgg == InitAgg /\ [][NextAgg]_vars

(***************************************************************************)
(* Best-candidate reduction: workers deliver the candidates in any order;  *)
(* the incumbent is the first candidate, then replaced by a candidate      *)
(* exactly when candidate < incumbent.  Two runs, A and B, reduce the same *)
(* candidates, each in its own arrival order.                              *)
(***************************************************************************)
CandidatePool ==
  {i \in Indicators : /\ i.eval.distance = 0
                      /\ i.routes_hash = 0
                      /\ i.used_vehicles <= 1}

Offer(incumbent, c) ==
  IF incumbent = <<>> THEN <<c>>
  ELSE IF OperatorLess(c, incumbent[1]) THEN <<c>>
  ELSE incumbent

InitRed ==
  /\ candidates \in {S \in SUBSET CandidatePool : Cardinality(S) = NumWorkers}
  /\ pendingA = candidates
  /\ incumbentA = <<>>
  /\ pendingB = candidates
  /\ incumbentB = <<>>
  /\ CmpIdle
  /\ AggIdle

ArriveA ==
  /\ \E c \in pendingA :
       /\ incumbentA' = Offer(incumbentA, c)
       /\ pendingA' = pendingA \ {c}
  /\ UNCHANGED <<candidates, pendingB, incumbentB, cmpVars, aggVars>>

ArriveB ==
  /\ \E c \in pendingB :
       /\ incumbentB' = Offer(incumbentB, c)
       /\ pendingB' = pendingB \ {c}
  /\ UNCHANGED <<candidates, pendingA, incumbentA, cmpVars, aggVars>>

NextRed == ArriveA \/ ArriveB

SpecRed == InitRed /\ [][NextRed]_vars

(***************************************************************************)
(* Properties of operator<, checked under Spec.                            *)
(***************************************************************************)
Compared == cpc = "compared"

Equivalent == Compared /\ ~cmp.lt /\ ~cmp.gt

\* C1: lhs < rhs and rhs < lhs are never both true, whatever the priority
\* regimes of the two operands; an operand is never better than itself.
C1_Asymmetric ==
  Compared => /\ ~(cmp.lt /\ cmp.gt)
              /\ (lhs = rhs => ~cmp.lt /\ ~cmp.gt)

\* A pair of mixed regime (one priority_sum = 0, the other > 0) has been
\* compared and ranked.
C1_Witness ==
  /\ Compared
  /\ lhs.priority_sum = 0
  /\ rhs.priority_sum > 0
  /\ cmp.gt
  /\ ~cmp.lt

NoPriorityRegime == {i \in Indicators : i.priority_sum = 0}

PriorityRegime == {i \in Indicators : i.priority_sum > 0}

\* The indicators c such that a, b and c are of the same priority regime.
SameRegimeAs(a, b) ==
  IF a.priority_sum = 0 /\ b.priority_sum = 0 THEN NoPriorityRegime
  ELSE IF a.priority_sum > 0 /\ b.priority_sum > 0 THEN PriorityRegime
  ELSE {}

\* C2: for three indicators of the same priority regime, lhs < rhs and
\* rhs < c imply lhs < c.
C2_TransitiveSameRegime ==
  (Compared /\ cmp.lt) =>
    \A c \in SameRegimeAs(lhs, rhs) :
      OperatorLess(rhs, c) => OperatorLess(lhs, c)

\* lhs < rhs < c with all three in priority mode, decided by the profit
\* tie-break for the first pair and by profit for the second.
C2_Witness ==
  /\ Compared
  /\ cmp.lt
  /\ Profit(lhs) = Profit(rhs)
  /\ \E c \in SameRegimeAs(lhs, rhs) :
       /\ c.priority_sum > 0
       /\ Profit(c) < Profit(rhs)
       /\ OperatorLess(rhs, c)

\* C3: for any three indicators whatsoever, lhs < rhs and rhs < c imply
\* lhs < c.
C3_TransitiveAll ==
  (Compared /\ cmp.lt) =>
    \A c \in Indicators : OperatorLess(rhs, c) => OperatorLess(lhs, c)

\* The decision procedure of the two modes, criterion by criterion: the
\* first criterion whose two values differ decides.
RECURSIVE FirstDiffering(_)
FirstDiffering(criteria) ==
  IF criteria = <<>> THEN FALSE
  ELSE LET c == Head(criteria) IN
       IF c.a = c.b THEN FirstDiffering(Tail(criteria))
       ELSE IF c.wins = "higher" THEN c.a > c.b ELSE c.a < c.b

Criterion(x, y, w) == [a |-> x, b |-> y, wins |-> w]

TwoModeDecision(a, b) ==
  IF a.priority_sum > 0 \/ b.priority_sum > 0
  THEN FirstDiffering(<<
         Criterion(a.priority_sum * 360000 - a.eval.cost,
                   b.priority_sum * 360000 - b.eval.cost, "higher"),
         Criterion(a.assigned, b.assigned, "higher"),
         Criterion(a.used_vehicles, b.used_vehicles, "lower"),
         Criterion(a.eval.duration, b.eval.duration, "lower"),
         Criterion(a.eval.distance, b.eval.distance, "lower"),
         Criterion(a.routes_hash, b.routes_hash, "lower")>>)
  ELSE FirstDiffering(<<
         Criterion(a.assigned, b.assigned, "higher"),
         Criterion(a.eval.cost, b.eval.cost, "lower"),
         Criterion(a.used_vehicles, b.used_vehicles, "lower"),
         Criterion(a.eval.duration, b.eval.duration, "lower"),
         Criterion(a.eval.distance, b.eval.distance, "lower"),
         Criterion(a.routes_hash, b.routes_hash, "lower")>>)

\* C5: operator< returns what the two-mode decision procedure returns:
\* profit then assigned, vehicles, duration, distance, hash when either
\* operand has priority; assigned, cost, vehicles, duration, distance, hash
\* otherwise; false when no criterion differs.
C5_TwoModeProcedure ==
  Compared => /\ cmp.lt = TwoModeDecision(lhs, rhs)
              /\ cmp.gt = TwoModeDecision(rhs, lhs)

\* Lexicographic mode, the job counts tie and the higher cost loses.
C5_Witness ==
  /\ Compared
  /\ lhs.priority_sum = 0 /\ rhs.priority_sum = 0
  /\ lhs.assigned = rhs.assigned
  /\ lhs.eval.cost > rhs.eval.cost
  /\ lhs.used_vehicles < rhs.used_vehicles
  /\ cmp.gt
  /\ ~cmp.lt

\* C8 as stated: two indicators are equivalent exactly when all their
\* fields are equal.
C8_EquivalentIffEqualFields ==
  Compared => (Equivalent <=> lhs = rhs)

EveryCriterionTies(a, b) ==
  IF UsingPriorities(a, b)
  THEN /\ Profit(a) = Profit(b)
       /\ a.assigned = b.assigned
       /\ a.used_vehicles = b.used_vehicles
       /\ a.eval.duration = b.eval.duration
       /\ a.eval.distance = b.eval.distance
       /\ a.routes_hash = b.routes_hash
  ELSE a = b

\* C8 amended: two indicators are equivalent exactly when every criterion
\* of the mode selected for the pair ties: all fields in lexicographic
\* mode; profit, assigned, used_vehicles, duration, distance and
\* routes_hash in priority mode, where priority_sum and cost may differ.
C8_EquivalentIffCriteriaTie ==
  Compared => (Equivalent <=> EveryCriterionTies(lhs, rhs))

\* Priority mode: equal profit from different priority_sum and cost, all
\* tie-breakers equal; the operands are equivalent and not equal.
C8_Witness ==
  /\ Equivalent
  /\ lhs.priority_sum > rhs.priority_sum
  /\ lhs.eval.cost > rhs.eval.cost
  /\ lhs # rhs

\* C10: two values produced by the default constructor have every field
\* equal to zero, routes_hash included, and compare as equivalent.
C10_DefaultAllZero ==
  how = "default" =>
    /\ lhs = DefaultConstructed(0)
    /\ rhs = DefaultConstructed(0)
    /\ (Compared => ~cmp.lt /\ ~cmp.gt)

(***************************************************************************)
(* Properties of the constructor, checked under SpecAgg.                   *)
(***************************************************************************)
Built == apc \in {"built", "both"}

Slots == 1..Len(sol)

RECURSIVE SumOver(_, _)
SumOver(f, S) ==
  IF S = {} THEN 0
  ELSE LET x == CHOOSE y \in S : TRUE IN f[x] + SumOver(f, S \ {x})

SizeCount(s, n) == Cardinality({k \in 1..Len(s) : Len(s[k].route) = n})

SameSizes(s, t) ==
  /\ Len(s) = Len(t)
  /\ \A n \in 0..MaxJobs : SizeCount(s, n) = SizeCount(t, n)

\* C6: routes_hash is the same for every permutation of the vehicle slots,
\* and the same for every solution with the same multiset of route sizes.
C6_FingerprintInvariance ==
  /\ apc = "both" => indp.routes_hash = ind.routes_hash
  /\ apc = "built" => \A t \in Solutions :
                SameSizes(sol, t) => RoutesHash(t) = ind.routes_hash

\* The slots were permuted so that the sequence of sizes changed.
C6_Witness ==
  /\ apc = "both"
  /\ RoutesSizes(Permuted(sol, perm)) # RoutesSizes(sol)
  /\ \E k \in Slots : RouteEmpty(sol[k])
  /\ \E k \in Slots : RouteSize(sol[k]) > 1

\* C7: the fields are the sums over the slots, each route evaluated once
\* with vehicle rank = slot index; used_vehicles counts the non-empty
\* routes and is at most the number of slots and at most assigned.
C7_AggregatedSums ==
  Built =>
    /\ ind.priority_sum =
         SumOver([k \in Slots |-> priority_sum_for_route(input, sol[k].route)],
                 Slots)
    /\ ind.assigned = SumOver([k \in Slots |-> Len(sol[k].route)], Slots)
    /\ ind.eval.cost =
         SumOver([k \in Slots |->
                    route_eval_for_vehicle(input, k - 1, sol[k].route).cost],
                 Slots)
    /\ ind.eval.duration =
         SumOver([k \in Slots |->
                    route_eval_for_vehicle(input, k - 1, sol[k].route).duration],
                 Slots)
    /\ ind.eval.distance =
         SumOver([k \in Slots |->
                    route_eval_for_vehicle(input, k - 1, sol[k].route).distance],
                 Slots)
    /\ eval_calls = [k \in Slots |-> k - 1]
    /\ prio_calls = Len(sol)
    /\ ind.used_vehicles = Cardinality({k \in Slots : sol[k].route # <<>>})
    /\ ind.used_vehicles <= Len(sol)
    /\ ind.used_vehicles <= ind.assigned

\* A solution whose first vehicle is unused and whose second vehicle
\* carries several jobs, some with priority, has been aggregated.
C7_Witness ==
  /\ Built
  /\ Len(sol) = MaxSlots
  /\ sol[1].route = <<>>
  /\ Len(sol[2].route) > 1
  /\ ind.priority_sum > 0
  /\ ind.used_vehicles < Len(sol)

(***************************************************************************)
(* Properties of the reduction, checked under SpecRed.                     *)
(***************************************************************************)
\* C4: once every candidate has arrived, the incumbent is the same whatever
\* the arrival order was.
C4_ReductionReproducible ==
  (pendingA = {} /\ pendingB = {} /\ candidates # {})
    => incumbentA = incumbentB

\* C9: no candidate seen so far is better than the current incumbent.
C9_IncumbentOptimal ==
  incumbentA # <<>> =>
    \A c \in candidates \ pendingA : ~OperatorLess(c, incumbentA[1])

====
